---- MODULE Spec2Model ----
(***************************************************************************)
(* A model of preamble_installer/cli.py: extraction of LaTeX package       *)
(* declarations, resolution to tlmgr package names, and the install /      *)
(* failover / verification loop of main().                                 *)
(*                                                                         *)
(* Text is modelled at character level: a string that the code inspects    *)
(* (a source line, a package name) is a sequence of one-character          *)
(* strings.  A TeX file is the sequence of its lines.                      *)
(***************************************************************************)
EXTENDS Integers, Sequences, FiniteSets, TLC

VARIABLES
    pc,                 \* position of main()
    tex_files,          \* resolve_tex_files(...): the files found, each a sequence of lines
    latex_to_tlmgr,     \* mappings.latex_to_tlmgr
    requested_aliases,  \* mappings.requested_aliases
    extras_inferred,    \* extras.inferred
    extras_requested,   \* extras.requested
    repositories,       \* settings.tlmgr_repositories
    auto_switch_repo,   \* settings.auto_switch_repository_on_tlpdb_error
    dry_run,            \* --dry-run
    verify_only,        \* --verify-only
    latex_packages,     \* extract_latex_packages(tex_files)
    resolved,           \* set of tlmgr names
    unresolved,         \* list of raw names without a tlmgr name
    ordered_packages,   \* sorted(resolved)
    idx,                \* 1-based position of the loop in ordered_packages
    current_repo_index, \* 0-based cursor into repositories
    switched,           \* local of the failover loop
    result,             \* InstallResult of the package being processed
    failures,           \* list of InstallResult
    timeouts,           \* list of InstallResult
    skipped,            \* list of InstallResult
    missing,            \* missing / missing_after_install
    exit_code,          \* process exit status, meaningful when pc = "exit"
    calls               \* the package-manager invocations made so far, in order

vars == <<pc, tex_files, latex_to_tlmgr, requested_aliases, extras_inferred,
          extras_requested, repositories, auto_switch_repo, dry_run, verify_only,
          latex_packages, resolved, unresolved, ordered_packages, idx,
          current_repo_index, switched, result, failures, timeouts, skipped,
          missing, exit_code, calls>>

(***************************************************************************)
(* Bounds of the model.                                                    *)
(***************************************************************************)
MaxPkgs == 2
MaxRepos == 3
MaxSegs == 3
MaxRaw == 3
MaxExtras == 1

(***************************************************************************)
(* Characters and strings.                                                 *)
(***************************************************************************)
\* Unicode code points of the characters the model uses (Python compares
\* str values code point by code point).
CodePoint(c) ==
    CASE c = "\n" -> 10  [] c = " " -> 32   [] c = "%" -> 37  [] c = "," -> 44
      [] c = "-" -> 45   [] c = "P" -> 80   [] c = "R" -> 82  [] c = "[" -> 91
      [] c = "\\" -> 92  [] c = "]" -> 93   [] c = "a" -> 97  [] c = "b" -> 98
      [] c = "c" -> 99   [] c = "e" -> 101  [] c = "f" -> 102 [] c = "g" -> 103
      [] c = "i" -> 105  [] c = "k" -> 107  [] c = "o" -> 111 [] c = "p" -> 112
      [] c = "q" -> 113  [] c = "r" -> 114  [] c = "s" -> 115 [] c = "t" -> 116
      [] c = "u" -> 117  [] c = "x" -> 120  [] c = "z" -> 122 [] c = "{" -> 123
      [] c = "}" -> 125

\* str.__lt__: lexicographic order by code point.
RECURSIVE StrLess(_, _)
StrLess(s, t) ==
    IF t = <<>> THEN FALSE
    ELSE IF s = <<>> THEN TRUE
    ELSE IF Head(s) = Head(t) THEN StrLess(Tail(s), Tail(t))
    ELSE CodePoint(Head(s)) < CodePoint(Head(t))

RECURSIVE sortedDescending(_)
sortedDescending(S) ==
    IF S = {} THEN <<>>
    ELSE LET m == CHOOSE x \in S : \A y \in S \ {x} : StrLess(y, x)
         IN  <<m>> \o sortedDescending(S \ {m})

\* sorted(set): ascending list of the elements of a set of strings.
RECURSIVE sorted(_)
sorted(S) ==
    IF S = {} THEN <<>>
    ELSE LET m == CHOOSE x \in S : \A y \in S \ {x} : StrLess(x, y)
         IN  <<m>> \o sorted(S \ {m})

\* s[i:] for a 1-based i.
Drop(s, i) == SubSeq(s, i, Len(s))

\* s.startswith(p, i) for a 1-based i.
StartsWithAt(s, p, i) ==
    /\ i + Len(p) - 1 <= Len(s)
    /\ SubSeq(s, i, i + Len(p) - 1) = p

\* Least position >= i where character c occurs in s, or 0.
IndexFrom(s, c, i) ==
    LET hits == {j \in i..Len(s) : s[j] = c}
    IN  IF hits = {} THEN 0 ELSE CHOOSE j \in hits : \A k \in hits : j <= k

IsSpace(c) == c \in {" ", "\n", "\t"}

\* str.strip()
RECURSIVE strip(_)
strip(s) ==
    IF s = <<>> THEN s
    ELSE IF IsSpace(Head(s)) THEN strip(Tail(s))
    ELSE IF IsSpace(s[Len(s)]) THEN strip(SubSeq(s, 1, Len(s) - 1))
    ELSE s

\* str.split(","): the list of fields.
RECURSIVE splitComma(_)
splitComma(s) ==
    LET k == IndexFrom(s, ",", 1)
    IN  IF k = 0 THEN <<s>>
        ELSE <<SubSeq(s, 1, k - 1)>> \o splitComma(Drop(s, k + 1))

\* "\n".join(lines)
RECURSIVE joinLines(_)
joinLines(lines) ==
    IF lines = <<>> THEN <<>>
    ELSE IF Len(lines) = 1 THEN lines[1]
    ELSE lines[1] \o <<"\n">> \o joinLines(Tail(lines))

(***************************************************************************)
(* Extractor.                                                              *)
(***************************************************************************)
\* The lookbehind (?<!\\\\) of strip_comments' pattern at position i: the
\* raw-string pattern \\\\ is two literal backslashes.
LookbehindOk(line, i) ==
    ~ (i >= 3 /\ line[i - 2] = "\\" /\ line[i - 1] = "\\")

\* re.split(r"(?<!\\\\)%", line, maxsplit=1)[0]
strip_comments(line) ==
    LET hits == {i \in 1..Len(line) : line[i] = "%" /\ LookbehindOk(line, i)}
    IN  IF hits = {} THEN line
        ELSE SubSeq(line, 1, (CHOOSE i \in hits : \A k \in hits : i <= k) - 1)

MacroUse == <<"\\", "u", "s", "e", "p", "a", "c", "k", "a", "g", "e">>
MacroRequire == <<"\\", "R", "e", "q", "u", "i", "r", "e", "P", "a", "c", "k", "a", "g", "e">>

\* USEPACKAGE_PATTERN matched at position i of text: <<end, group1>> of the
\* match, or <<0, <<>>>> when there is none.
\*   \\(?:usepackage|RequirePackage)(?:\[[^\]]*\])?\{([^}]*)\}
PatternMatchAt(text, i) ==
    LET afterName ==
            IF StartsWithAt(text, MacroUse, i) THEN i + Len(MacroUse)
            ELSE IF StartsWithAt(text, MacroRequire, i) THEN i + Len(MacroRequire)
            ELSE 0
        closeOpt ==
            IF afterName # 0 /\ afterName <= Len(text) /\ text[afterName] = "["
            THEN IndexFrom(text, "]", afterName + 1) ELSE 0
        \* the optional group is taken when it can be, and given up otherwise
        brace ==
            IF afterName = 0 THEN 0
            ELSE IF closeOpt # 0 /\ closeOpt + 1 <= Len(text) /\ text[closeOpt + 1] = "{"
                 THEN closeOpt + 1
            ELSE IF afterName <= Len(text) /\ text[afterName] = "{" THEN afterName
            ELSE 0
        close == IF brace = 0 THEN 0 ELSE IndexFrom(text, "}", brace + 1)
    IN  IF close = 0 THEN <<0, <<>>>>
        ELSE <<close, SubSeq(text, brace + 1, close - 1)>>

\* [part.strip() for part in group.split(",") if part.strip()]
NamesOf(group) ==
    LET parts == splitComma(group)
    IN  {strip(parts[k]) : k \in 1..Len(parts)} \ {<<>>}

\* USEPACKAGE_PATTERN.finditer(text) from position i: the names of all
\* non-overlapping matches, leftmost first.
RECURSIVE FindAll(_, _)
FindAll(text, i) ==
    IF i > Len(text) THEN {}
    ELSE LET m == PatternMatchAt(text, i)
         IN  IF m[1] = 0 THEN FindAll(text, i + 1)
             ELSE NamesOf(m[2]) \cup FindAll(text, m[1] + 1)

\* The body of extract_latex_packages' loop for one file.
FileNames(file) ==
    FindAll(joinLines([k \in 1..Len(file) |-> strip_comments(file[k])]), 1)

extract_latex_packages(files) ==
    sorted(UNION {FileNames(files[k]) : k \in 1..Len(files)})

(***************************************************************************)
(* Resolver (main, lines 194-210).                                         *)
(***************************************************************************)
\* dict.get(key, default)
DictGet(d, key, default) == IF key \in DOMAIN d THEN d[key] ELSE default

EmptyDict == [k \in {} |-> <<>>]

\* Truthiness of a str: the empty string is false.
Truthy(s) == s # <<>>

\* The loop over latex_packages: <<resolved, unresolved>> after the names
\* of the list have been handled in order, starting from acc.
RECURSIVE ResolveRaw(_, _, _)
ResolveRaw(names, map, acc) ==
    IF names = <<>> THEN acc
    ELSE LET name == Head(names)
             mapped == DictGet(map, name, name)
         IN  ResolveRaw(Tail(names), map,
                 IF Truthy(mapped)
                 THEN <<acc[1] \cup {mapped}, acc[2]>>
                 ELSE <<acc[1], Append(acc[2], name)>>)

\* for name in extras.get("inferred", []): resolved.add(name)
AddInferred(res, inferred) == res \cup {inferred[k] : k \in 1..Len(inferred)}

AddRequestedNoAlias(res, requested, aliases) ==
    res \cup {requested[k] : k \in 1..Len(requested)}

\* for name in extras.get("requested", []): resolved.add(requested_aliases.get(name, name))
AddRequested(res, requested, aliases) ==
    res \cup {DictGet(aliases, requested[k], requested[k]) : k \in 1..Len(requested)}

(***************************************************************************)
(* Installer client.  A subprocess call ends in one of: the process exits  *)
(* (returncode, stderr, stdout), subprocess.TimeoutExpired, or             *)
(* FileNotFoundError.                                                      *)
(***************************************************************************)
tlmgr_cmd == <<"t", "l", "m", "g", "r">>
install_timeout == 180
installed_check_timeout == 25
repo_switch_timeout == 45

DigitChar(d) ==
    CASE d = 0 -> "0" [] d = 1 -> "1" [] d = 2 -> "2" [] d = 3 -> "3" [] d = 4 -> "4"
      [] d = 5 -> "5" [] d = 6 -> "6" [] d = 7 -> "7" [] d = 8 -> "8" [] d = 9 -> "9"

\* str(n) for n >= 0
RECURSIVE Decimal(_)
Decimal(n) ==
    IF n < 10 THEN <<DigitChar(n)>> ELSE Decimal(n \div 10) \o <<DigitChar(n % 10)>>

\* str.lower(), on the letters the sampled messages use.
LowerChar(c) ==
    CASE c = "T" -> "t" [] c = "X" -> "x" [] c = "L" -> "l" [] c = "P" -> "p"
      [] c = "D" -> "d" [] c = "B" -> "b" [] OTHER -> c

lower(s) == [k \in 1..Len(s) |-> LowerChar(s[k])]

\* needle in s
Contains(s, needle) == \E i \in 1..Len(s) : StartsWithAt(s, needle, i)

is_tlpdb_error(detail) ==
    LET lowered == lower(detail)
    IN  \/ Contains(lowered, <<"t", "e", "x", "l", "i", "v", "e", ".", "t", "l", "p", "d", "b">>)
        \/ Contains(lowered, <<"c", "o", "u", "l", "d", " ", "n", "o", "t", " ", "g", "e", "t", " ", "t", "e", "x", "l", "i", "v", "e", ".", "t", "l", "p", "d", "b">>)

\* Outcomes of a subprocess call that the model samples.
StderrTlpdb == <<"c", "a", "n", "n", "o", "t", " ", "l", "o", "a", "d", " ", "T", "e", "X", "L", "i", "v", "e", ".", "t", "l", "p", "d", "b">>
StdoutOther == <<"n", "o", "t", " ", "f", "o", "u", "n", "d">>

ProcOutcomes ==
    { [kind |-> "exit", returncode |-> 0, stderr |-> <<>>, stdout |-> <<>>],
      [kind |-> "exit", returncode |-> 1, stderr |-> StderrTlpdb, stdout |-> <<>>],
      [kind |-> "exit", returncode |-> 1, stderr |-> <<" ">>, stdout |-> StdoutOther],
      [kind |-> "exit", returncode |-> 2, stderr |-> <<>>, stdout |-> <<>>],
      [kind |-> "timeout", returncode |-> 0, stderr |-> <<>>, stdout |-> <<>>],
      [kind |-> "notfound", returncode |-> 0, stderr |-> <<>>, stdout |-> <<>>] }

\* msg = stderr if stderr else stdout if stdout else f"exit code {proc.returncode}"
FailureMessage(proc) ==
    LET stderr == strip(proc.stderr)
        stdout == strip(proc.stdout)
    IN  IF Truthy(stderr) THEN stderr
        ELSE IF Truthy(stdout) THEN stdout
        ELSE <<"e", "x", "i", "t", " ", "c", "o", "d", "e", " ">> \o Decimal(proc.returncode)

InstallResult(package, status, detail) ==
    [package |-> package, status |-> status, detail |-> detail]

run_tlmgr_install(cmd, package, timeout_seconds, proc) ==
    IF proc.kind = "timeout"
    THEN InstallResult(package, "timeout",
             <<"t", "i", "m", "e", "d", " ", "o", "u", "t", " ", "a", "f", "t", "e", "r", " ">> \o Decimal(timeout_seconds) \o <<"s">>)
    ELSE IF proc.kind = "notfound"
    THEN InstallResult(package, "error", <<"c", "o", "m", "m", "a", "n", "d", " ", "n", "o", "t", " ", "f", "o", "u", "n", "d", ":", " ">> \o cmd)
    ELSE IF proc.returncode = 0
    THEN InstallResult(package, "ok", <<"i", "n", "s", "t", "a", "l", "l", "e", "d">>)
    ELSE InstallResult(package, "failed", FailureMessage(proc))

\* <<installed, detail>>
is_tlmgr_package_installed(cmd, package, timeout_seconds, proc) ==
    IF proc.kind = "timeout"
    THEN <<FALSE, <<"i", "n", "s", "t", "a", "l", "l", "-", "c", "h", "e", "c", "k", " ", "t", "i", "m", "e", "d", " ", "o", "u", "t", " ", "a", "f", "t", "e", "r", " ">> \o Decimal(timeout_seconds) \o <<"s">>>>
    ELSE IF proc.kind = "notfound"
    THEN <<FALSE, <<"c", "o", "m", "m", "a", "n", "d", " ", "n", "o", "t", " ", "f", "o", "u", "n", "d", ":", " ">> \o cmd>>
    ELSE IF proc.returncode = 0
    THEN <<TRUE, <<"a", "l", "r", "e", "a", "d", "y", " ", "i", "n", "s", "t", "a", "l", "l", "e", "d">>>>
    ELSE <<FALSE, FailureMessage(proc)>>

\* <<ok, detail>>
run_tlmgr_option_repository(cmd, repository, timeout_seconds, proc) ==
    IF proc.kind = "timeout"
    THEN <<FALSE, <<"t", "i", "m", "e", "d", " ", "o", "u", "t", " ", "a", "f", "t", "e", "r", " ">> \o Decimal(timeout_seconds)
                  \o <<"s", " ", "w", "h", "i", "l", "e", " ", "s", "e", "t", "t", "i", "n", "g", " ", "r", "e", "p", "o", "s", "i", "t", "o", "r", "y">>>>
    ELSE IF proc.kind = "notfound"
    THEN <<FALSE, <<"c", "o", "m", "m", "a", "n", "d", " ", "n", "o", "t", " ", "f", "o", "u", "n", "d", ":", " ">> \o cmd>>
    ELSE IF proc.returncode = 0
    THEN <<TRUE, <<"r", "e", "p", "o", "s", "i", "t", "o", "r", "y", " ", "u", "p", "d", "a", "t", "e", "d">>>>
    ELSE <<FALSE, FailureMessage(proc)>>

\* One entry of calls: the operation, its argument, what it returned (the
\* status of an install, the boolean of the two others), the detail of an
\* install's result, and the repository cursor the call was made at.
Call(op, arg, ret, detail, cursor) ==
    [op |-> op, arg |-> arg, ret |-> ret, detail |-> detail, cursor |-> cursor]

(***************************************************************************)
(* main(): decisions.                                                      *)
(***************************************************************************)
\* click exits with UsageError.exit_code for the typer.BadParameter of line 182.
BadParameterExit == 2

NoResult == InstallResult(<<>>, "none", <<>>)

\* The package the loop is at.
pkg == ordered_packages[idx]

\* if not tex_files
NoTexFilesNever(files) == FALSE

NoTexFiles(files) == files = <<>>

PreCheckNeverSkips(is_installed) == FALSE

\* if is_installed: ... continue  (the pre-check's skip)
PreCheckSkips(is_installed) == is_installed

FailoverGuardOffByOne(res, auto, repos, cursor) ==
    /\ res.status = "failed"
    /\ auto
    /\ repos # <<>>
    /\ is_tlpdb_error(res.detail)
    /\ cursor + 2 < Len(repos)

FailoverGuardNoAuto(res, auto, repos, cursor) ==
    /\ res.status = "failed"
    /\ repos # <<>>
    /\ is_tlpdb_error(res.detail)
    /\ cursor + 1 < Len(repos)

\* The condition of the failover block.
FailoverGuard(res, auto, repos, cursor) ==
    /\ res.status = "failed"
    /\ auto
    /\ repos # <<>>
    /\ is_tlpdb_error(res.detail)
    /\ cursor + 1 < Len(repos)

\* while current_repo_index + 1 < len(repositories)
FailoverContinues(cursor, repos) == cursor + 1 < Len(repos)

RecheckNeverSkips(is_installed_after) == FALSE

\* if is_installed_after: skipped.append(...) else: timeouts.append(result)
RecheckSkips(is_installed_after) == is_installed_after

RunHasIssuesFailuresOnly(fails, touts) == fails # <<>>

\* if failures or timeouts
RunHasIssues(fails, touts) == fails # <<>> \/ touts # <<>>

VerifyMissesNever(installed) == FALSE

\* if not installed: missing.append(pkg)
VerifyMisses(installed) == ~installed

\* Where the install loop goes after the package at position i.
AfterPackage(i) == IF i + 1 <= Len(ordered_packages) THEN "precheck" ELSE "post"

(***************************************************************************)
(* main(): steps.                                                          *)
(***************************************************************************)
config == <<tex_files, latex_to_tlmgr, requested_aliases, extras_inferred,
            extras_requested, repositories, auto_switch_repo, dry_run, verify_only>>
resolution == <<latex_packages, resolved, unresolved, ordered_packages>>
buckets == <<failures, timeouts, skipped>>

\* tex_files = resolve_tex_files(...); if not tex_files: raise BadParameter
ResolveTexFiles ==
    /\ pc = "start"
    /\ IF NoTexFiles(tex_files)
       THEN pc' = "exit" /\ exit_code' = BadParameterExit
       ELSE pc' = "extract" /\ UNCHANGED exit_code
    /\ UNCHANGED <<config, resolution, buckets, idx, current_repo_index, switched,
                   result, missing, calls>>

Extract ==
    /\ pc = "extract"
    /\ latex_packages' = extract_latex_packages(tex_files)
    /\ pc' = "resolve"
    /\ UNCHANGED <<config, resolved, unresolved, ordered_packages, buckets, idx,
                   current_repo_index, switched, result, missing, exit_code, calls>>

Resolve ==
    /\ pc = "resolve"
    /\ LET raw == ResolveRaw(latex_packages, latex_to_tlmgr, <<{}, <<>>>>)
           all == AddRequested(AddInferred(raw[1], extras_inferred),
                               extras_requested, requested_aliases)
       IN  /\ resolved' = all
           /\ unresolved' = raw[2]
           /\ ordered_packages' = sorted(all)
    /\ pc' = "dispatch"
    /\ UNCHANGED <<config, latex_packages, buckets, idx, current_repo_index, switched,
                   result, missing, exit_code, calls>>

ModeDispatchVerifyFirst ==
    /\ pc = "dispatch"
    /\ IF verify_only
       THEN pc' = "verify_only" /\ idx' = 1 /\ missing' = <<>> /\ UNCHANGED exit_code
       ELSE IF dry_run
       THEN pc' = "exit" /\ exit_code' = 0 /\ UNCHANGED <<idx, missing>>
       ELSE pc' = "setup" /\ UNCHANGED <<idx, missing, exit_code>>
    /\ UNCHANGED <<config, resolution, buckets, current_repo_index, switched, result, calls>>

\* if dry_run: return / if verify_only: ... / else the install run
ModeDispatch ==
    /\ pc = "dispatch"
    /\ IF dry_run
       THEN pc' = "exit" /\ exit_code' = 0 /\ UNCHANGED <<idx, missing>>
       ELSE IF verify_only
       THEN pc' = "verify_only" /\ idx' = 1 /\ missing' = <<>> /\ UNCHANGED exit_code
       ELSE pc' = "setup" /\ UNCHANGED <<idx, missing, exit_code>>
    /\ UNCHANGED <<config, resolution, buckets, current_repo_index, switched, result, calls>>

\* One iteration of the verify-only loop.
VerifyOnlyStep ==
    /\ pc = "verify_only"
    /\ idx <= Len(ordered_packages)
    /\ \E proc \in ProcOutcomes :
         LET r == is_tlmgr_package_installed(tlmgr_cmd, pkg, installed_check_timeout, proc)
         IN  /\ calls' = Append(calls, Call("isInstalled", pkg, r[1], <<>>, current_repo_index))
             /\ missing' = IF VerifyMisses(r[1]) THEN Append(missing, pkg) ELSE missing
    /\ idx' = idx + 1
    /\ UNCHANGED <<pc, config, resolution, buckets, current_repo_index, switched,
                   result, exit_code>>

\* if missing: raise typer.Exit(code=1) / return
VerifyOnlyEnd ==
    /\ pc = "verify_only"
    /\ idx > Len(ordered_packages)
    /\ pc' = "exit"
    /\ exit_code' = IF missing # <<>> THEN 1 ELSE 0
    /\ UNCHANGED <<config, resolution, buckets, idx, current_repo_index, switched,
                   result, missing, calls>>

\* The primary repository and the initialisation of the install loop.
SetupRepository ==
    /\ pc = "setup"
    /\ IF repositories # <<>>
       THEN \E proc \in ProcOutcomes :
              LET r == run_tlmgr_option_repository(tlmgr_cmd, repositories[1],
                                                   repo_switch_timeout, proc)
              IN  calls' = Append(calls, Call("setRepository", repositories[1], r[1], <<>>, 0))
       ELSE UNCHANGED calls
    /\ failures' = <<>>
    /\ timeouts' = <<>>
    /\ skipped' = <<>>
    /\ current_repo_index' = 0
    /\ idx' = 1
    /\ pc' = AfterPackage(0)
    /\ UNCHANGED <<config, resolution, switched, result, missing, exit_code>>

PreCheckResetsCursor ==
    /\ pc = "precheck"
    /\ current_repo_index' = 0
    /\ \E proc \in ProcOutcomes :
         LET r == is_tlmgr_package_installed(tlmgr_cmd, pkg, installed_check_timeout, proc)
         IN  /\ calls' = Append(calls, Call("isInstalled", pkg, r[1], <<>>, 0))
             /\ IF PreCheckSkips(r[1])
                THEN /\ skipped' = Append(skipped, InstallResult(pkg, "skipped", r[2]))
                     /\ idx' = idx + 1
                     /\ pc' = AfterPackage(idx)
                ELSE /\ pc' = "install"
                     /\ UNCHANGED <<skipped, idx>>
    /\ UNCHANGED <<config, resolution, failures, timeouts, switched, result, missing,
                   exit_code>>

\* The pre-check of a package.
PreCheck ==
    /\ pc = "precheck"
    /\ \E proc \in ProcOutcomes :
         LET r == is_tlmgr_package_installed(tlmgr_cmd, pkg, installed_check_timeout, proc)
         IN  /\ calls' = Append(calls, Call("isInstalled", pkg, r[1], <<>>, current_repo_index))
             /\ IF PreCheckSkips(r[1])
                THEN /\ skipped' = Append(skipped, InstallResult(pkg, "skipped", r[2]))
                     /\ idx' = idx + 1
                     /\ pc' = AfterPackage(idx)
                ELSE /\ pc' = "install"
                     /\ UNCHANGED <<skipped, idx>>
    /\ UNCHANGED <<config, resolution, failures, timeouts, current_repo_index,
                   switched, result, missing, exit_code>>

\* result = run_tlmgr_install(...) and the test of the failover block.
Install ==
    /\ pc = "install"
    /\ \E proc \in ProcOutcomes :
         LET r == run_tlmgr_install(tlmgr_cmd, pkg, install_timeout, proc)
         IN  /\ calls' = Append(calls, Call("install", pkg, r.status, r.detail, current_repo_index))
             /\ result' = r
             /\ IF FailoverGuard(r, auto_switch_repo, repositories, current_repo_index)
                THEN pc' = "failover" /\ switched' = FALSE
                ELSE pc' = "classify" /\ UNCHANGED switched
    /\ UNCHANGED <<config, resolution, buckets, idx, current_repo_index, missing, exit_code>>

\* One iteration of the failover loop, up to the retry.
FailoverStep ==
    /\ pc = "failover"
    /\ current_repo_index' = current_repo_index + 1
    /\ \E proc \in ProcOutcomes :
         LET next_repo == repositories[current_repo_index' + 1]
             r == run_tlmgr_option_repository(tlmgr_cmd, next_repo, repo_switch_timeout, proc)
         IN  /\ calls' = Append(calls, Call("setRepository", next_repo, r[1], <<>>,
                                         current_repo_index'))
             /\ IF ~r[1]
                THEN /\ pc' = IF FailoverContinues(current_repo_index', repositories)
                              THEN "failover" ELSE "classify"
                     /\ UNCHANGED switched
                ELSE /\ switched' = TRUE
                     /\ pc' = "retry"
    /\ UNCHANGED <<config, resolution, buckets, idx, result, missing, exit_code>>

RetryLoops ==
    /\ pc = "retry"
    /\ \E proc \in ProcOutcomes :
         LET r == run_tlmgr_install(tlmgr_cmd, pkg, install_timeout, proc)
         IN  /\ calls' = Append(calls, Call("install", pkg, r.status, r.detail, current_repo_index))
             /\ result' = r
             /\ pc' = IF FailoverGuard(r, auto_switch_repo, repositories, current_repo_index)
                      THEN "failover" ELSE "classify"
    /\ UNCHANGED <<config, resolution, buckets, idx, current_repo_index, switched,
                   missing, exit_code>>

\* result = run_tlmgr_install(...) of the failover loop; break
Retry ==
    /\ pc = "retry"
    /\ \E proc \in ProcOutcomes :
         LET r == run_tlmgr_install(tlmgr_cmd, pkg, install_timeout, proc)
         IN  /\ calls' = Append(calls, Call("install", pkg, r.status, r.detail, current_repo_index))
             /\ result' = r
    /\ pc' = "classify"
    /\ UNCHANGED <<config, resolution, buckets, idx, current_repo_index, switched,
                   missing, exit_code>>

ClassifyAbortsOnError ==
    /\ pc = "classify"
    /\ IF result.status = "ok"
       THEN /\ idx' = idx + 1
            /\ pc' = AfterPackage(idx)
            /\ UNCHANGED failures
       ELSE IF result.status = "timeout"
       THEN /\ pc' = "recheck"
            /\ UNCHANGED <<idx, failures>>
       ELSE /\ failures' = Append(failures, result)
            /\ idx' = idx + 1
            /\ pc' = IF result.status = "error" THEN "post" ELSE AfterPackage(idx)
    /\ UNCHANGED <<config, resolution, timeouts, skipped, current_repo_index, switched,
                   result, missing, exit_code, calls>>

ClassifyIfNotElif ==
    /\ pc = "classify"
    /\ IF result.status = "timeout"
       THEN /\ pc' = "recheck"
            /\ UNCHANGED <<idx, failures>>
       ELSE /\ failures' = Append(failures, result)
            /\ idx' = idx + 1
            /\ pc' = AfterPackage(idx)
    /\ UNCHANGED <<config, resolution, timeouts, skipped, current_repo_index, switched,
                   result, missing, exit_code, calls>>

\* if result.status == "ok" / elif "timeout" / else
Classify ==
    /\ pc = "classify"
    /\ IF result.status = "ok"
       THEN /\ idx' = idx + 1
            /\ pc' = AfterPackage(idx)
            /\ UNCHANGED failures
       ELSE IF result.status = "timeout"
       THEN /\ pc' = "recheck"
            /\ UNCHANGED <<idx, failures>>
       ELSE /\ failures' = Append(failures, result)
            /\ idx' = idx + 1
            /\ pc' = AfterPackage(idx)
    /\ UNCHANGED <<config, resolution, timeouts, skipped, current_repo_index, switched,
                   result, missing, exit_code, calls>>

\* The query after a timed-out install.
Recheck ==
    /\ pc = "recheck"
    /\ \E proc \in ProcOutcomes :
         LET r == is_tlmgr_package_installed(tlmgr_cmd, pkg, installed_check_timeout, proc)
         IN  /\ calls' = Append(calls, Call("isInstalled", pkg, r[1], <<>>, current_repo_index))
             /\ IF RecheckSkips(r[1])
                THEN /\ skipped' = Append(skipped, InstallResult(pkg, "skipped",
                            <<"i", "n", "s", "t", "a", "l", "l", " ", "t", "i", "m", "e", "d", " ", "o", "u", "t", ",", " ", "b", "u", "t", " ", "p", "a", "c", "k", "a", "g", "e", " ", "i", "s", " ", "i", "n", "s", "t", "a", "l", "l", "e", "d", " ", "(">> \o r[2] \o <<")">>))
                     /\ UNCHANGED timeouts
                ELSE /\ timeouts' = Append(timeouts, result)
                     /\ UNCHANGED skipped
    /\ idx' = idx + 1
    /\ pc' = AfterPackage(idx)
    /\ UNCHANGED <<config, resolution, failures, current_repo_index, switched, result,
                   missing, exit_code>>

\* if failures or timeouts: raise typer.Exit(code=1); else final verification
PostRun ==
    /\ pc = "post"
    /\ IF RunHasIssues(failures, timeouts)
       THEN pc' = "exit" /\ exit_code' = 1 /\ UNCHANGED <<idx, missing>>
       ELSE pc' = "final_verify" /\ idx' = 1 /\ missing' = <<>> /\ UNCHANGED exit_code
    /\ UNCHANGED <<config, resolution, buckets, current_repo_index, switched, result, calls>>

\* One iteration of the final verification loop.
FinalVerifyStep ==
    /\ pc = "final_verify"
    /\ idx <= Len(ordered_packages)
    /\ \E proc \in ProcOutcomes :
         LET r == is_tlmgr_package_installed(tlmgr_cmd, pkg, installed_check_timeout, proc)
         IN  /\ calls' = Append(calls, Call("isInstalled", pkg, r[1], <<>>, current_repo_index))
             /\ missing' = IF VerifyMisses(r[1]) THEN Append(missing, pkg) ELSE missing
    /\ idx' = idx + 1
    /\ UNCHANGED <<pc, config, resolution, buckets, current_repo_index, switched,
                   result, exit_code>>

\* if missing_after_install: raise typer.Exit(code=1); else success
FinalVerifyEnd ==
    /\ pc = "final_verify"
    /\ idx > Len(ordered_packages)
    /\ pc' = "exit"
    /\ exit_code' = IF missing # <<>> THEN 1 ELSE 0
    /\ UNCHANGED <<config, resolution, buckets, idx, current_repo_index, switched,
                   result, missing, calls>>

(***************************************************************************)
(* Specifications.                                                         *)
(***************************************************************************)
\* Package names and mirrors the sampled configurations draw from.
PkgPool == <<<<"q", "u", "x">>, <<"b", "a", "r">>, <<"f", "o", "o">>, <<"b", "a", "z">>>>
RepoPool == <<"A", "B", "C", "D">>

RECURSIVE joinComma(_)
joinComma(names) ==
    IF names = <<>> THEN <<>>
    ELSE IF Len(names) = 1 THEN names[1]
    ELSE names[1] \o <<",">> \o joinComma(Tail(names))

\* A one-line file declaring the given names.
DeclFile(names) == <<MacroUse \o <<"{">> \o joinComma(names) \o <<"}">>>>

\* The state of main() at its start, but for the configuration.
InitRun ==
    /\ pc = "start"
    /\ latex_packages = <<>>
    /\ resolved = {}
    /\ unresolved = <<>>
    /\ ordered_packages = <<>>
    /\ idx = 0
    /\ current_repo_index = 0
    /\ switched = FALSE
    /\ result = NoResult
    /\ failures = <<>>
    /\ timeouts = <<>>
    /\ skipped = <<>>
    /\ missing = <<>>
    /\ exit_code = 0
    /\ calls = <<>>

\* Runs of main() in every mode, over configurations without aliases.
Init ==
    /\ InitRun
    /\ tex_files \in {<<>>} \cup {<<DeclFile(SubSeq(PkgPool, 1, n))>> : n \in 0..MaxPkgs}
    /\ latex_to_tlmgr = EmptyDict
    /\ requested_aliases = EmptyDict
    /\ extras_inferred = <<>>
    /\ extras_requested = <<>>
    /\ repositories \in {SubSeq(RepoPool, 1, n) : n \in 0..MaxRepos}
    /\ auto_switch_repo \in BOOLEAN
    /\ dry_run \in BOOLEAN
    /\ verify_only \in BOOLEAN

Next ==
    \/ ResolveTexFiles
    \/ Extract
    \/ Resolve
    \/ ModeDispatch
    \/ VerifyOnlyStep
    \/ VerifyOnlyEnd
    \/ SetupRepository
    \/ PreCheck
    \/ Install
    \/ FailoverStep
    \/ Retry
    \/ Classify
    \/ Recheck
    \/ PostRun
    \/ FinalVerifyStep
    \/ FinalVerifyEnd

Spec == Init /\ [][Next]_vars

\* The steps of main() from the choice of the mode on: each makes at most
\* one subprocess call, which returns with a result or at its timeout.
NextRun ==
    \/ ModeDispatch
    \/ VerifyOnlyStep
    \/ VerifyOnlyEnd
    \/ SetupRepository
    \/ PreCheck
    \/ Install
    \/ FailoverStep
    \/ Retry
    \/ Classify
    \/ Recheck
    \/ PostRun
    \/ FinalVerifyStep
    \/ FinalVerifyEnd

\* The move of main() out of one of its three first positions (the glob, the
\* extraction, the resolution), which are computations without a guard.
FrontStep ==
    /\ pc \in {"start", "extract", "resolve"}
    /\ pc' \in {"extract", "resolve", "dispatch", "exit"}
    /\ pc' # pc

\* main() runs to its end: a step that can be taken is taken.
SpecFair == Spec /\ WF_pc(FrontStep) /\ WF_vars(NextRun)

\* The steps of main() up to the choice of the mode.
NextFront ==
    \/ ResolveTexFiles
    \/ Extract
    \/ Resolve
    \/ ModeDispatch

\* Pieces of a source line: a backslash, a comment marker, plain text, and
\* two package declarations.
DeclFoo == MacroUse \o <<"{", "f", "o", "o", "}">>
DeclBar == MacroRequire \o <<"[", "o", "]", "{", "b", "a", "r", "}">>
Segments == {<<"\\">>, <<"%">>, <<"x">>, <<" ">>, DeclFoo, DeclBar}

\* The lines made of at most n pieces.
RECURSIVE LinesUpTo(_)
LinesUpTo(n) ==
    IF n = 0 THEN {<<>>}
    ELSE LET shorter == LinesUpTo(n - 1)
         IN  shorter \cup {l \o s : l \in shorter, s \in Segments}

\* Dry runs over one-line files, without aliases: the extractor on every line.
InitExtract ==
    /\ InitRun
    /\ tex_files \in {<<<<l>>>> : l \in LinesUpTo(MaxSegs)}
    /\ latex_to_tlmgr = EmptyDict
    /\ requested_aliases = EmptyDict
    /\ extras_inferred = <<>>
    /\ extras_requested = <<>>
    /\ repositories = <<>>
    /\ auto_switch_repo = TRUE
    /\ dry_run = TRUE
    /\ verify_only = FALSE

SpecExtract == InitExtract /\ [][NextFront]_vars

\* Names the sampled alias tables and extras lists draw from.
RawPool == <<<<"f", "o", "o">>, <<"b", "a", "z">>, <<"q", "u", "x">>, <<"a", "b", "c">>>>
ExtraPool == {<<"q", "u", "x">>, <<"f", "o", "o">>}
LatexTargets == {<<>>, <<"b", "a", "r", "-", "t", "e", "x">>}
RequestedTargets == {<<>>, <<"b", "a", "r", "-", "t", "e", "x">>}

\* The dicts with keys among keys and values among values.
DictsOver(keys, values) == UNION {[D -> values] : D \in SUBSET keys}

\* The lists of at most n elements of S.
RECURSIVE ListsUpTo(_, _)
ListsUpTo(S, n) ==
    IF n = 0 THEN {<<>>}
    ELSE LET shorter == ListsUpTo(S, n - 1)
         IN  shorter \cup {Append(l, x) : l \in shorter, x \in S}

RawNames == {RawPool[k] : k \in 1..MaxRaw}

\* The elements of list whose value is in S, in the order of list.
RECURSIVE Filter(_, _)
Filter(list, S) ==
    IF list = <<>> THEN <<>>
    ELSE IF Head(list) \in S THEN <<Head(list)>> \o Filter(Tail(list), S)
    ELSE Filter(Tail(list), S)

\* Dry runs over every sampled combination of declared names, alias tables
\* and extras lists: the resolver on every input.
InitResolve ==
    /\ InitRun
    /\ tex_files \in {<<DeclFile(Filter(RawPool, S))>> : S \in SUBSET RawNames}
    /\ latex_to_tlmgr \in DictsOver(RawNames, LatexTargets)
    /\ requested_aliases \in DictsOver(ExtraPool, RequestedTargets)
    /\ extras_inferred \in ListsUpTo(ExtraPool, MaxExtras)
    /\ extras_requested \in ListsUpTo(ExtraPool, MaxExtras)
    /\ repositories = <<>>
    /\ auto_switch_repo = TRUE
    /\ dry_run = TRUE
    /\ verify_only = FALSE

SpecResolve == InitResolve /\ [][NextFront]_vars

(***************************************************************************)
(* Properties.                                                             *)
(***************************************************************************)
InstallMode == tex_files # <<>> /\ ~dry_run /\ ~verify_only
Positions == 1..Len(calls)
IsCall(i, op, arg) == calls[i].op = op /\ calls[i].arg = arg
InstallCalls(p) == {i \in Positions : IsCall(i, "install", p)}
QueryCalls(p) == {i \in Positions : IsCall(i, "isInstalled", p)}
Packages == {ordered_packages[k] : k \in 1..Len(ordered_packages)}
PackagesIn(bucket) == {bucket[k].package : k \in 1..Len(bucket)}
AllQueriesTrue == \A i \in Positions : calls[i].op = "isInstalled" => calls[i].ret
StrictlySorted(list) == \A i, j \in 1..Len(list) : i < j => StrLess(list[i], list[j])

\* C1 (idempotence): in an install run where every isInstalled query so far
\* returned true, install has not been invoked; when such a run has ended,
\* every package is recorded as skipped, in order, and the exit code is 0.
C1_Idempotence ==
    (InstallMode /\ AllQueriesTrue) =>
        /\ \A i \in Positions : calls[i].op # "install"
        /\ pc = "exit" =>
             /\ exit_code = 0
             /\ [k \in 1..Len(skipped) |-> skipped[k].package] = ordered_packages
             /\ \A k \in 1..Len(skipped) : skipped[k].status = "skipped"

C1_Witness ==
    /\ pc = "exit" /\ InstallMode /\ AllQueriesTrue /\ exit_code = 0
    /\ Len(ordered_packages) >= 2
    /\ Len(skipped) = Len(ordered_packages)
    /\ \A p \in Packages : Cardinality(QueryCalls(p)) = 2

\* A first install attempt made on the first repository that failed with a
\* TLPDB-error detail.
TlpdbFailureOnA(i) ==
    /\ calls[i].op = "install"
    /\ calls[i].ret = "failed"
    /\ is_tlpdb_error(calls[i].detail)
    /\ calls[i].cursor = 0

\* C2 (failover sequence): with two repositories and auto-switch enabled, an
\* install that fails on the first repository with a TLPDB-error detail is
\* followed by setRepository(second repository) and, if that succeeds, by
\* exactly one more install of the same package, whose failure is recorded
\* in the failed bucket; in any run a package is installed at most twice,
\* the second time only right after a successful setRepository.
C2_FailoverSequence ==
    /\ (auto_switch_repo /\ Len(repositories) = 2) =>
         \A i \in Positions : TlpdbFailureOnA(i) =>
           /\ pc = "exit" => i < Len(calls)
           /\ i < Len(calls) =>
                /\ IsCall(i + 1, "setRepository", repositories[2])
                /\ calls[i + 1].ret =>
                     /\ pc = "exit" => i + 2 <= Len(calls)
                     /\ i + 2 <= Len(calls) =>
                          /\ IsCall(i + 2, "install", calls[i].arg)
                          /\ InstallCalls(calls[i].arg) = {i, i + 2}
                          /\ (calls[i + 2].ret = "failed" /\ pc = "exit") =>
                               \E k \in 1..Len(failures) :
                                    failures[k] = InstallResult(calls[i].arg, "failed",
                                                                calls[i + 2].detail)
                /\ ~calls[i + 1].ret => InstallCalls(calls[i].arg) = {i}
    /\ \A p \in Packages :
         /\ Cardinality(InstallCalls(p)) <= 2
         /\ \A i, j \in InstallCalls(p) :
              i < j => /\ calls[j - 1].op = "setRepository"
                       /\ calls[j - 1].ret

C2_Witness ==
    /\ pc = "exit" /\ auto_switch_repo /\ Len(repositories) = 2
    /\ \E i \in Positions :
         /\ TlpdbFailureOnA(i)
         /\ i + 2 <= Len(calls)
         /\ IsCall(i + 1, "setRepository", repositories[2])
         /\ calls[i + 1].ret
         /\ IsCall(i + 2, "install", calls[i].arg)
         /\ calls[i + 2].ret = "failed"

\* The position of the last install attempt of package p, or 0.
LastInstall(p) ==
    IF InstallCalls(p) = {} THEN 0
    ELSE CHOOSE i \in InstallCalls(p) : \A j \in InstallCalls(p) : j <= i

\* C3 (timeout reclassification): when the install loop has finished, every
\* package whose last install attempt timed out has exactly one isInstalled
\* query after that attempt, right after it; if the query returned true the
\* package is in the skipped bucket and in neither other bucket, and if it
\* returned false the package is in the timeout bucket.
C3_TimeoutReclassification ==
    pc = "post" =>
      \A p \in Packages :
        LET i == LastInstall(p)
        IN  (i # 0 /\ calls[i].ret = "timeout") =>
              /\ i + 1 <= Len(calls)
              /\ IsCall(i + 1, "isInstalled", p)
              /\ {j \in QueryCalls(p) : j > i} = {i + 1}
              /\ IF calls[i + 1].ret
                 THEN /\ \E k \in 1..Len(skipped) :
                           skipped[k].package = p /\ skipped[k].status = "skipped"
                      /\ p \notin PackagesIn(timeouts)
                      /\ p \notin PackagesIn(failures)
                 ELSE /\ p \in PackagesIn(timeouts)
                      /\ p \notin PackagesIn(skipped)

C3_Witness ==
    /\ pc = "post"
    /\ \E p \in Packages :
         /\ Cardinality(InstallCalls(p)) = 2
         /\ calls[LastInstall(p)].ret = "timeout"
         /\ calls[LastInstall(p) + 1].ret = TRUE
         /\ p \in PackagesIn(skipped)
    /\ \E q \in Packages :
         /\ Cardinality(InstallCalls(q)) = 1
         /\ calls[LastInstall(q)].ret = "timeout"
         /\ q \in PackagesIn(timeouts)

\* The last len(ordered_packages) calls are the queries of a verification
\* pass, and all returned true.
VerificationPassed ==
    LET n == Len(ordered_packages)
    IN  /\ Len(calls) >= n
        /\ \A k \in 1..n :
             /\ IsCall(Len(calls) - n + k, "isInstalled", ordered_packages[k])
             /\ calls[Len(calls) - n + k].ret

\* C4 (exit code of an install run): a finished install run has exit code 0
\* when the failed and timeout buckets are empty and every query of the
\* final verification pass returned true, and exit code 1 otherwise.
C4_InstallExitCode ==
    (pc = "exit" /\ InstallMode) =>
        exit_code = IF failures = <<>> /\ timeouts = <<>> /\ VerificationPassed
                    THEN 0 ELSE 1

C4_Witness ==
    /\ pc = "exit" /\ InstallMode
    /\ failures = <<>> /\ timeouts = <<>>
    /\ Len(ordered_packages) >= 2
    /\ \E p \in Packages : InstallCalls(p) # {}
    /\ exit_code = 1

C6_DryRun ==
    (dry_run /\ tex_files # <<>>) =>
        /\ calls = <<>>
        /\ pc \in {"start", "extract", "resolve", "dispatch", "exit"}
        /\ pc = "exit" => (exit_code = 0 /\ ordered_packages = sorted(resolved))

C6_Witness ==
    /\ dry_run /\ verify_only /\ pc = "exit" /\ exit_code = 0
    /\ Len(ordered_packages) >= 2 /\ repositories # <<>>

\* C7 (verify-only): the calls of a verify-only run are isInstalled queries,
\* the i-th for the i-th package of the sorted list; when the run has ended
\* there is one per package, and the exit code is 1 if a query returned
\* false and 0 otherwise.
C7_VerifyOnly ==
    (verify_only /\ ~dry_run /\ tex_files # <<>>) =>
        /\ Len(calls) <= Len(ordered_packages)
        /\ \A i \in Positions : IsCall(i, "isInstalled", ordered_packages[i])
        /\ StrictlySorted(ordered_packages)
        /\ pc = "exit" =>
             /\ Len(calls) = Len(ordered_packages)
             /\ exit_code = IF \E i \in Positions : ~calls[i].ret THEN 1 ELSE 0

C7_Witness ==
    /\ verify_only /\ ~dry_run /\ pc = "exit" /\ exit_code = 1
    /\ repositories # <<>>
    /\ Len(ordered_packages) >= 2
    /\ \E i \in Positions : calls[i].ret

\* The prefix of a line before its first comment marker that no backslash
\* precedes.
UnescapedPrefix(line) ==
    LET marks == {i \in 1..Len(line) :
                    line[i] = "%" /\ ~(i >= 2 /\ line[i - 1] = "\\")}
    IN  IF marks = {} THEN line
        ELSE SubSeq(line, 1, (CHOOSE i \in marks : \A k \in marks : i <= k) - 1)

AllLines ==
    UNION {{tex_files[f][l] : l \in 1..Len(tex_files[f])} : f \in 1..Len(tex_files)}

\* C8 (comment stripping): strip_comments cuts a line at its first comment
\* marker that no backslash precedes, and the extracted names are those
\* declared before that marker.
C8_StripComments ==
    pc \in {"resolve", "dispatch", "exit"} =>
        \A line \in AllLines :
            /\ strip_comments(line) = UnescapedPrefix(line)
            /\ \A name \in FindAll(UnescapedPrefix(line), 1) :
                  \E k \in 1..Len(latex_packages) : latex_packages[k] = name

\* C9 (resolution): the resolved list is the sorted, duplicate-free list of
\* the non-empty aliases of the raw names, the inferred extras and the
\* aliases of the requested extras; the unresolved names are the raw names
\* whose alias is empty.
RawSet == {latex_packages[k] : k \in 1..Len(latex_packages)}
LatexAlias(n) == IF n \in DOMAIN latex_to_tlmgr THEN latex_to_tlmgr[n] ELSE n
RequestedAlias(r) == IF r \in DOMAIN requested_aliases THEN requested_aliases[r] ELSE r

C9_Resolution ==
    pc \in {"dispatch", "exit"} =>
        /\ {ordered_packages[k] : k \in 1..Len(ordered_packages)} =
               {LatexAlias(n) : n \in {m \in RawSet : LatexAlias(m) # <<>>}}
               \cup {extras_inferred[k] : k \in 1..Len(extras_inferred)}
               \cup {RequestedAlias(extras_requested[k]) : k \in 1..Len(extras_requested)}
        /\ StrictlySorted(ordered_packages)
        /\ {unresolved[k] : k \in 1..Len(unresolved)} =
               {n \in RawSet : LatexAlias(n) = <<>>}
        /\ Len(unresolved) = Cardinality({n \in RawSet : LatexAlias(n) = <<>>})

C9_Witness ==
    /\ pc = "exit"
    /\ \E a, b, c \in RawSet :
         /\ a \in DOMAIN latex_to_tlmgr /\ latex_to_tlmgr[a] = <<>>
         /\ b \in DOMAIN latex_to_tlmgr /\ latex_to_tlmgr[b] # <<>>
         /\ c \notin DOMAIN latex_to_tlmgr
         /\ unresolved = <<a>>
         /\ latex_to_tlmgr[b] \in Packages
         /\ c \in Packages
    /\ \E k \in 1..Len(extras_requested) :
         /\ extras_requested[k] \in DOMAIN requested_aliases
         /\ requested_aliases[extras_requested[k]] \notin {<<>>, extras_requested[k]}
         /\ extras_requested[k] \notin Packages
    /\ Len(ordered_packages) >= 3

\* C10 (repository cursor): the cursor starts at 0, never decreases, and is
\* an index of the repository list whenever one is configured.
C10_CursorMonotone ==
    /\ current_repo_index = 0
    /\ [](/\ current_repo_index >= 0
          /\ repositories # <<>> => current_repo_index < Len(repositories))
    /\ [][current_repo_index' >= current_repo_index]_vars

C10_Witness ==
    /\ pc = "precheck"
    /\ idx >= 2
    /\ current_repo_index >= 2
    /\ current_repo_index = Len(repositories) - 1

\* The positions of main() inside the install loop.
LoopPcs == {"precheck", "install", "failover", "retry", "classify", "recheck"}

\* The positions of the successful setRepository calls.
SwitchCalls == {i \in Positions : calls[i].op = "setRepository" /\ calls[i].ret}

\* C11 (cursor is the active repository): when the install loop starts a
\* package or attempts its install, the repository at the cursor is the one
\* of the most recent successful setRepository call of the run.
C11_CursorIsActiveRepository ==
    (InstallMode /\ pc \in {"precheck", "install"} /\ SwitchCalls # {}) =>
        LET last == CHOOSE i \in SwitchCalls : \A j \in SwitchCalls : j <= i
        IN  repositories[current_repo_index + 1] = calls[last].arg

\* The outcome of package p is ok or skipped by the call at position i.
Decided(i, p) ==
    \/ IsCall(i, "install", p) /\ calls[i].ret = "ok"
    \/ IsCall(i, "isInstalled", p) /\ calls[i].ret

\* The calls made for package p after position i.
PkgCallsAfter(p, i) ==
    {j \in Positions : j > i /\ calls[j].op # "setRepository" /\ calls[j].arg = p}

\* The call a step appends, when it appends one.
NewCall == calls'[Len(calls')]

\* C12 (no attempt after ok or skipped): once an install of a package
\* returned ok or a query for it returned true, at most one more call is made
\* for it, and that call is the isInstalled query of the final verification.
C12_NoAttemptAfterDecided ==
    /\ [](InstallMode =>
            \A p \in Packages : \A i \in Positions :
               Decided(i, p) =>
                  /\ Cardinality(PkgCallsAfter(p, i)) <= 1
                  /\ \A j \in PkgCallsAfter(p, i) : calls[j].op = "isInstalled")
    /\ [][(InstallMode /\ calls' # calls /\ NewCall.op # "setRepository"
             /\ \E i \in Positions : Decided(i, NewCall.arg))
          => (pc = "final_verify" /\ NewCall.op = "isInstalled")]_vars

C12_Witness ==
    /\ pc = "exit" /\ InstallMode /\ exit_code = 0
    /\ \E p, q \in Packages :
         /\ Cardinality(InstallCalls(p)) = 2
         /\ calls[LastInstall(p)].ret = "ok"
         /\ Cardinality(PkgCallsAfter(p, LastInstall(p))) = 1
         /\ InstallCalls(q) = {}
         /\ Cardinality(QueryCalls(q)) = 2

\* The position of the first isInstalled query of package p, or 0.
FirstQuery(p) ==
    IF QueryCalls(p) = {} THEN 0
    ELSE CHOOSE i \in QueryCalls(p) : \A j \in QueryCalls(p) : i <= j

\* C13 (the loop is never aborted): when the install loop of a run is over,
\* whatever the earlier calls returned, every package of the resolved list
\* has received its pre-check query, and every package whose pre-check was
\* false has received an install attempt after it.
C13_LoopNeverAborts ==
    (InstallMode /\ pc \in {"post", "final_verify", "exit"}) =>
        \A p \in Packages :
            /\ FirstQuery(p) # 0
            /\ ~calls[FirstQuery(p)].ret =>
                 \E i \in InstallCalls(p) : FirstQuery(p) < i

C13_Witness ==
    /\ pc = "exit" /\ InstallMode
    /\ Len(calls) >= 1
    /\ calls[1].op = "setRepository" /\ ~calls[1].ret
    /\ \E i, j \in Positions :
         /\ i + 1 < j
         /\ calls[i].op = "install" /\ calls[i].ret = "failed"
         /\ calls[i + 1].op = "setRepository" /\ ~calls[i + 1].ret
         /\ calls[j].op = "install" /\ calls[j].ret = "error"
         /\ calls[j].arg # calls[i].arg
         /\ ~calls[FirstQuery(calls[j].arg)].ret

\* The failed bucket or the timeout bucket holds an entry.
IssuesRecorded == failures # <<>> \/ timeouts # <<>>

\* C14 (issues stop the run): when the install loop finishes with an entry in
\* the failed or the timeout bucket, the next step ends the run with exit code
\* 1 and makes no package-manager call; the final verification pass is only
\* ever entered with both buckets empty.
C14_IssuesStopRun ==
    /\ [](pc = "final_verify" => ~IssuesRecorded)
    /\ []((InstallMode /\ pc = "exit" /\ IssuesRecorded) =>
             /\ exit_code = 1
             /\ \A p \in Packages :
                  \A i \in QueryCalls(p) :
                     i = FirstQuery(p) \/ (i = LastInstall(p) + 1 /\ calls[i - 1].ret = "timeout"))
    /\ [][(pc = "post" /\ IssuesRecorded) =>
             (pc' = "exit" /\ exit_code' = 1 /\ calls' = calls)]_vars

C14_Witness ==
    /\ pc = "exit" /\ InstallMode /\ exit_code = 1
    /\ failures = <<>> /\ Len(timeouts) = 1
    /\ Len(ordered_packages) >= 2
    /\ timeouts[1].package = ordered_packages[1]
    /\ calls[Len(calls)].op = "install" /\ calls[Len(calls)].ret = "ok"
    /\ calls[Len(calls)].arg = ordered_packages[Len(ordered_packages)]

\* The setRepository calls of the install loop (the one of the setup is made
\* at cursor 0, those of the failover after the cursor has advanced).
FailoverCalls == {i \in Positions : calls[i].op = "setRepository" /\ calls[i].cursor >= 1}

\* The first install attempts of the packages.
FirstInstalls ==
    {i \in Positions : calls[i].op = "install"
                       /\ \A j \in 1..(i - 1) : ~IsCall(j, "install", calls[i].arg)}

\* The five conditions of the failover, read off the install call at i.
FailoverAllowed(i) ==
    /\ calls[i].ret = "failed"
    /\ auto_switch_repo
    /\ repositories # <<>>
    /\ Contains(lower(calls[i].detail), <<"t", "e", "x", "l", "i", "v", "e", ".", "t", "l", "p", "d", "b">>)
    /\ calls[i].cursor + 1 < Len(repositories)

\* C15 (failover guard): every setRepository call of the install loop follows,
\* through failed setRepository calls only, a first install attempt that
\* failed with a TLPDB-error detail (in any letter case) while auto-switch was
\* enabled, the repository list was non-empty and the cursor was not on the
\* last repository; a first attempt without one of these is followed by no
\* setRepository call and no retry; with auto-switch disabled the only
\* setRepository call of a run is the one of the setup.
C15_FailoverGuard ==
    /\ \A i \in FailoverCalls :
         \E f \in FirstInstalls :
            /\ f < i
            /\ FailoverAllowed(f)
            /\ \A j \in (f + 1)..(i - 1) : calls[j].op = "setRepository" /\ ~calls[j].ret
    /\ \A f \in FirstInstalls :
         ~FailoverAllowed(f) =>
            /\ f < Len(calls) => calls[f + 1].op # "setRepository"
            /\ InstallCalls(calls[f].arg) = {f}
    /\ ~auto_switch_repo =>
         \A i \in Positions : calls[i].op = "setRepository" => i = 1

C15_Witness ==
    /\ pc = "exit" /\ InstallMode
    /\ \E f, g \in FirstInstalls :
         /\ f < g
         /\ calls[f].ret = "failed" /\ ~FailoverAllowed(f)
         /\ calls[f].cursor + 1 < Len(repositories)
         /\ FailoverAllowed(g)
         /\ Contains(calls[g].detail, <<"T", "e", "X", "L", "i", "v", "e", ".", "t", "l", "p", "d", "b">>)
         /\ g + 1 \in FailoverCalls

\* The index of package p in the resolved list.
PkgIndex(p) == CHOOSE k \in 1..Len(ordered_packages) : ordered_packages[k] = p

\* The isInstalled queries of the final verification pass: those that are
\* neither the first query of their package nor the re-check after a timeout.
VerifyQuery(m) ==
    /\ calls[m].op = "isInstalled"
    /\ m # FirstQuery(calls[m].arg)
    /\ ~(IsCall(m - 1, "install", calls[m].arg) /\ calls[m - 1].ret = "timeout")

\* The calls the install loop makes for a package.
LoopCalls == {i \in Positions : calls[i].op # "setRepository" /\ ~VerifyQuery(i)}

\* The package of the last install call among the first m calls.
CurPkg(m) ==
    calls[CHOOSE i \in 1..m : calls[i].op = "install"
                              /\ \A j \in (i + 1)..m : calls[j].op # "install"].arg

\* Among the first m calls, some package's last install attempt failed, or
\* timed out with a false re-check.
IssuesBefore(m) ==
    \E i \in 1..m :
        /\ calls[i].op = "install"
        /\ \A j \in (i + 1)..m : ~IsCall(j, "install", calls[i].arg)
        /\ \/ calls[i].ret \in {"failed", "error"}
           \/ calls[i].ret = "timeout" /\ i + 1 <= m /\ ~calls[i + 1].ret

NoCall == <<"none", <<>>>>

\* The call that follows the end of the k-th package, after m calls.
Finish(k, m) ==
    IF k < Len(ordered_packages) THEN <<"isInstalled", ordered_packages[k + 1]>>
    ELSE IF IssuesBefore(m) THEN NoCall
    ELSE <<"isInstalled", ordered_packages[1]>>

\* The operation and argument of the n-th call of an install run, computed
\* from the resolved list, the repository list, auto-switch and the outcomes
\* of the first n - 1 calls alone.
Expected(n) ==
    LET first == IF ordered_packages # <<>>
                 THEN <<"isInstalled", ordered_packages[1]>> ELSE NoCall
        m == n - 1
        c == calls[m]
    IN  IF n = 1
        THEN IF repositories # <<>> THEN <<"setRepository", repositories[1]>> ELSE first
        ELSE IF c.op = "setRepository"
        THEN IF c.cursor = 0 THEN first
             ELSE IF c.ret THEN <<"install", CurPkg(m)>>
             ELSE IF c.cursor + 1 < Len(repositories)
             THEN <<"setRepository", repositories[c.cursor + 2]>>
             ELSE Finish(PkgIndex(CurPkg(m)), m)
        ELSE IF c.op = "install"
        THEN IF m \in FirstInstalls /\ FailoverAllowed(m)
             THEN <<"setRepository", repositories[c.cursor + 2]>>
             ELSE IF c.ret = "timeout" THEN <<"isInstalled", c.arg>>
             ELSE Finish(PkgIndex(c.arg), m)
        ELSE IF VerifyQuery(m)
        THEN IF PkgIndex(c.arg) < Len(ordered_packages)
             THEN <<"isInstalled", ordered_packages[PkgIndex(c.arg) + 1]>>
             ELSE NoCall
        ELSE IF m = FirstQuery(c.arg) /\ ~c.ret THEN <<"install", c.arg>>
        ELSE Finish(PkgIndex(c.arg), m)

\* C16 (sequential, ordered, deterministic): the resolved list is strictly
\* ascending in code-point order; in the trace of an install run the loop's
\* calls for a package all precede the loop's calls for any later package,
\* and the first query of a package precedes its installs; the trace only
\* grows by one call at its end, and the call a step appends is the one
\* determined by the resolved list, the configuration and the outcomes of
\* the calls before it; a finished run has no call left.
C16_OrderedDeterministic ==
    /\ [](InstallMode =>
            /\ StrictlySorted(ordered_packages)
            /\ \A i, j \in LoopCalls :
                 i < j => calls[i].arg = calls[j].arg \/ StrLess(calls[i].arg, calls[j].arg)
            /\ \A p \in Packages :
                 \A i \in InstallCalls(p) : 0 < FirstQuery(p) /\ FirstQuery(p) < i
            /\ calls # <<>> =>
                 /\ calls[Len(calls)].op = Expected(Len(calls))[1]
                 /\ calls[Len(calls)].arg = Expected(Len(calls))[2]
            /\ pc = "exit" => Expected(Len(calls) + 1) = NoCall)
    /\ [][calls' = calls \/ calls' = Append(calls, NewCall)]_vars

C16_Witness ==
    /\ pc = "exit" /\ InstallMode /\ exit_code = 0
    /\ Len(ordered_packages) >= 2
    /\ StrLess(ordered_packages[1], ordered_packages[2])
    /\ \E i \in Positions :
         /\ IsCall(i, "install", ordered_packages[1]) /\ FailoverAllowed(i)
         /\ calls[i + 1].op = "setRepository" /\ calls[i + 1].ret
         /\ IsCall(i + 2, "install", ordered_packages[1]) /\ calls[i + 2].ret = "ok"
    /\ \E j \in Positions :
         /\ IsCall(j, "install", ordered_packages[2]) /\ calls[j].ret = "timeout"
         /\ IsCall(j + 1, "isInstalled", ordered_packages[2]) /\ calls[j + 1].ret
    /\ \E k \in Positions : VerifyQuery(k)

\* C17 (termination): every run reaches an exit when each enabled step is
\* eventually taken; an iteration of the failover loop advances the cursor
\* by one and keeps it inside the repository list; a run makes at most two
\* install calls and at most three isInstalled calls for a package.
C17_Terminates ==
    /\ <>(pc = "exit")
    /\ [](\A p \in Packages :
             /\ Cardinality(InstallCalls(p)) <= 2
             /\ Cardinality(QueryCalls(p)) <= 3)
    /\ [][pc = "failover" =>
             /\ current_repo_index' = current_repo_index + 1
             /\ current_repo_index' < Len(repositories)]_vars

C17_Witness ==
    /\ pc = "exit" /\ InstallMode
    /\ Len(ordered_packages) >= 2
    /\ \E p \in Packages :
         /\ Cardinality(InstallCalls(p)) = 2
         /\ Cardinality(QueryCalls(p)) = 3
    /\ \E i \in Positions :
         /\ i + 2 <= Len(calls)
         /\ calls[i].op = "setRepository" /\ ~calls[i].ret /\ calls[i].cursor = 1
         /\ calls[i + 1].op = "setRepository" /\ calls[i + 1].ret /\ calls[i + 1].cursor = 2

\* The setRepository calls of a run.
RepoCalls == {i \in Positions : calls[i].op = "setRepository"}

\* After the failed first attempt at f, no repository could be set: the
\* setRepository calls that follow it all failed.
NoMirrorSet(f) ==
    /\ f \in FirstInstalls /\ FailoverAllowed(f)
    /\ \A j \in (f + 1)..Len(calls) :
         (\A k \in (f + 1)..j : calls[k].op = "setRepository") => ~calls[j].ret

\* C18 (each repository is tried once): the setRepository calls of a run are
\* made at strictly increasing indexes of the repository list, each for the
\* repository at its index, so at most once per index; an install made with
\* the cursor on the last index is never followed by a setRepository call;
\* when every setRepository call after a package's failed first attempt
\* failed, that attempt is the package's only install and its result is in
\* the failed bucket with the status and detail it returned.
C18_EachRepositoryOnce ==
    /\ \A i, j \in RepoCalls : i < j => calls[i].cursor < calls[j].cursor
    /\ \A i \in RepoCalls :
         /\ calls[i].cursor < Len(repositories)
         /\ calls[i].arg = repositories[calls[i].cursor + 1]
    /\ Cardinality(RepoCalls) <= Len(repositories)
    /\ \A f \in Positions :
         (calls[f].op = "install" /\ calls[f].cursor + 1 >= Len(repositories)
            /\ f < Len(calls)) => calls[f + 1].op # "setRepository"
    /\ pc \in {"post", "exit"} =>
         \A f \in Positions :
            NoMirrorSet(f) =>
               /\ InstallCalls(calls[f].arg) = {f}
               /\ \E k \in 1..Len(failures) :
                    failures[k] = InstallResult(calls[f].arg, "failed", calls[f].detail)

C18_Witness ==
    /\ pc = "exit" /\ Len(repositories) = 3
    /\ Cardinality(RepoCalls) = 3
    /\ \E f, g \in FirstInstalls :
         /\ f + 3 < g
         /\ NoMirrorSet(f)
         /\ calls[f + 1].op = "setRepository" /\ calls[f + 2].op = "setRepository"
         /\ calls[g].ret = "failed" /\ calls[g].cursor = 2
         /\ Contains(lower(calls[g].detail), <<"t", "l", "p", "d", "b">>)

\* The number of entries of a bucket for package p.
EntriesOf(bucket, p) == Cardinality({k \in 1..Len(bucket) : bucket[k].package = p})

\* The last install attempt of package p returned ok.
InstalledOk(p) == LastInstall(p) # 0 /\ calls[LastInstall(p)].ret = "ok"

\* list is the start of longer.
IsPrefix(list, longer) ==
    Len(list) <= Len(longer) /\ SubSeq(longer, 1, Len(list)) = list

\* C19 (disjoint, single-valued buckets): when the install loop is over, each
\* resolved package either had its last install return ok and has no bucket
\* entry, or has exactly one entry in exactly one of the skipped, failed and
\* timeout buckets, with the status of that bucket; a step only ever appends
\* to a bucket.
C19_BucketsDisjoint ==
    /\ []((InstallMode /\ pc \in {"post", "final_verify", "exit"}) =>
            /\ \A p \in Packages :
                 EntriesOf(skipped, p) + EntriesOf(failures, p) + EntriesOf(timeouts, p)
                    = IF InstalledOk(p) THEN 0 ELSE 1
            /\ PackagesIn(skipped) \cup PackagesIn(failures) \cup PackagesIn(timeouts)
                    \subseteq Packages
            /\ \A k \in 1..Len(skipped) : skipped[k].status = "skipped"
            /\ \A k \in 1..Len(failures) : failures[k].status \in {"failed", "error"}
            /\ \A k \in 1..Len(timeouts) : timeouts[k].status = "timeout")
    /\ [][/\ IsPrefix(skipped, skipped')
          /\ IsPrefix(failures, failures')
          /\ IsPrefix(timeouts, timeouts')]_vars

C19_Witness ==
    /\ pc = "exit" /\ InstallMode
    /\ Len(skipped) = 1 /\ Len(failures) = 0 /\ Len(timeouts) = 0
    /\ Len(ordered_packages) = 2
    /\ \E p \in Packages :
         /\ InstalledOk(p)
         /\ Cardinality(InstallCalls(p)) = 2
    /\ LastInstall(skipped[1].package) # 0

\* C20 (no empty identifier): once the resolution has run, no entry of the
\* resolved package list is the empty string.
C20_ResolvedNonEmpty ==
    pc \in {"dispatch", "exit"} =>
        \A k \in 1..Len(ordered_packages) : ordered_packages[k] # <<>>

====
